---- MODULE Spec2Model ----
(***************************************************************************)
(* Model of the subdomain enumeration pipeline: SubFinder.run_async,       *)
(* SubFinder.process_domain, SubFinder._fetch_from_source (src/main.py),   *)
(* get_sources (src/sources/sources.py) and the parts of TelegramBot       *)
(* (src/utils/telegram.py) the pipeline calls: update_progress,            *)
(* send_message and the cancel handler.                                    *)
(*                                                                         *)
(* A hostname or input entry is a sequence of labels: "www.a.com" is       *)
(* <<"www", "a", "com">>.  Whitespace around a line of an input file is    *)
(* kept as the tokens " " and "\n" at either end of the sequence.          *)
(***************************************************************************)
EXTENDS Integers, Sequences, FiniteSets, TLC

VARIABLES
    pc,                  \* position of run_async
    inputShape,          \* arguments input_data/is_file: "single", "list" or "file"
    cancelArg,           \* argument cancel_event: "event" or "none" (the default None)
    botArg,              \* argument bot: "bot" or "none" (the default None)
    domains,             \* self.domains
    completed,           \* self.completed
    total,               \* local total of run_async
    all_subdomains,      \* local all_subdomains of run_async
    i,                   \* loop variable of the window loop (0-based offset)
    taskPc,              \* per domain position: where its process_domain coroutine is
                         \* ("new", "ready", "fetching", "sending", "done", "raised", "joined")
    taskResult,          \* per domain position: the set its coroutine returned (gather's results)
    srcStatus,           \* per domain position and source: state of the executor's future
    fetch_calls,         \* per domain position and source: number of source.fetch invocations
    cancel_event,        \* TelegramBot.cancel_event (asyncio.Event flag)
    last_percentage,     \* TelegramBot.last_percentage
    progress_message_id, \* TelegramBot.progress_message_id (0 is None)
    reports,             \* reports issued through console/bot.send_message, in order
    notifications,       \* percentages of the progress messages sent or edited, in order
    progressCalls,       \* arguments of bot.update_progress, as <<completed, total>>
    saved,               \* arguments of save_subdomains, in order
    returnedUnion,       \* union of every set a process_domain call has returned
    flagAtDispatch,      \* per domain position: cancel_event when its window was dispatched
    flagAtSubmit,        \* per domain position: cancel_event when its adapters were submitted
    outcome,             \* how run_async ended
    is_running,          \* TelegramBot.is_running
    last_message_id,     \* TelegramBot.last_message_id ("none" is None)
    hpc,                 \* position of the scan handler that was accepted: "none",
                         \* "downloading", "accepted", "running" or "replying"
    pending,             \* local domains of that handler, before it calls run_async
    active,              \* number of scan handlers between acceptance and their finally
    rejected,            \* a scan request was turned away since the last acceptance
    cancelledThisRun,    \* an authorized /cancel was received since the last acceptance
    prevCancelled,       \* the same, for the scan before
    sendPc,              \* position of _send_message: "idle", "attempt" or "returned"
    sendArg,             \* its argument message
    sendText,            \* its argument text
    answers,             \* what the chat service answers to the attempt that reaches it
    attempt,             \* its loop variable
    tries,               \* number of iterations of its loop so far
    slept,               \* seconds spent in asyncio.sleep during the call
    chat                 \* the texts the call has delivered to the chat

vars == <<pc, inputShape, cancelArg, botArg, domains, completed, total, all_subdomains, i,
          taskPc, taskResult, srcStatus, fetch_calls, cancel_event, last_percentage,
          progress_message_id, reports, notifications, progressCalls, saved,
          returnedUnion, flagAtDispatch, flagAtSubmit, outcome,
          is_running, last_message_id, hpc, pending, active, rejected, cancelledThisRun,
          prevCancelled, sendPc, sendArg, sendText, answers, attempt, tries, slept, chat>>

runVars == <<pc, inputShape, cancelArg, botArg, domains, completed, total, all_subdomains, i,
             taskPc, taskResult, srcStatus, fetch_calls, cancel_event, last_percentage,
             progress_message_id, reports, notifications, progressCalls, saved,
             returnedUnion, flagAtDispatch, flagAtSubmit, outcome>>

sendVars == <<sendPc, sendArg, sendText, answers, attempt, tries, slept, chat>>

botVars == <<is_running, last_message_id, hpc, pending, active, rejected, cancelledThisRun,
             prevCancelled>>

-----------------------------------------------------------------------------
(* Bounds *)
MaxDomains == 4      \* longest input list
MaxLines == 2        \* longest input file
MaxOther == 1        \* most entries of an input list that differ from the first domain

(* Program constants *)
max_concurrent == 3
max_workers == 6
bar_length == 10
max_retries == 3     \* _send_message(message, text, max_retries=3)
MessageId == 1       \* the message_id Telegram returns for the progress message
NoMessage == 0       \* progress_message_id = None
MessageIds == {"m1", "m2"}   \* the message_id of an incoming update

-----------------------------------------------------------------------------
(* Input universe *)
DomA == <<"a", "com">>
DomB == <<"b", "org">>
IpCidr == <<"10", "0", "0", "0/8">>
Garbage == <<"not a domain">>
Entries == {DomA, DomB, IpCidr, Garbage}

WS == {" ", "\n"}
FileLines == {DomA \o <<"\n">>, <<" ">> \o Garbage \o <<"\n">>, IpCidr \o <<"\n">>, <<" ", "\n">>}

Octets == {"0", "10"}
CidrTails == {"0/8"}
InvalidLabels == {"", "*", "not a domain", "0/8", " ", "\n"}
NumericLabels == Octets

RECURSIVE SeqsUpTo(_, _)
SeqsUpTo(S, n) ==
    IF n = 0 THEN {<<>>}
    ELSE LET shorter == SeqsUpTo(S, n - 1)
         IN  shorter \cup {Append(q, x) : q \in {r \in shorter : Len(r) = n - 1}, x \in S}

Range(f) == {f[k] : k \in DOMAIN f}

(* The input lists: up to MaxDomains entries, at most MaxOther of them not DomA *)
ListInputs ==
    {lst \in SeqsUpTo(Entries, MaxDomains) :
        Cardinality({k \in 1..Len(lst) : lst[k] # DomA}) <= MaxOther}

-----------------------------------------------------------------------------
(* DomainValidator / IPValidator (src/utils/validator.py is not in the     *)
(* source tree; modelled from the specification, sections 4.1 and 6).     *)
IsValidHostname(h) ==
    /\ Len(h) >= 2
    /\ \A k \in 1..Len(h) : h[k] \notin InvalidLabels
    /\ h[Len(h)] \notin NumericLabels

is_valid_domain(d) == IsValidHostname(d)

is_valid_ip_cidr(d) ==
    /\ Len(d) = 4
    /\ \A k \in 1..3 : d[k] \in Octets
    /\ d[4] \in Octets \cup CidrTails

IsSubordinate(h, d) ==
    /\ Len(h) >= Len(d)
    /\ SubSeq(h, Len(h) - Len(d) + 1, Len(h)) = d

filter_valid_subdomains(found, d) ==
    {h \in found : h # <<>> /\ IsSubordinate(h, d) /\ IsValidHostname(h)}

(* str.strip(): drop the whitespace at both ends *)
RECURSIVE LStrip(_)
LStrip(s) == IF s # <<>> /\ Head(s) \in WS THEN LStrip(Tail(s)) ELSE s

RECURSIVE RStrip(_)
RStrip(s) == IF s # <<>> /\ s[Len(s)] \in WS THEN RStrip(SubSeq(s, 1, Len(s) - 1)) ELSE s

Strip(s) == RStrip(LStrip(s))

(* [d.strip() for d in f if d.strip()] *)
RECURSIVE StripLines(_)
StripLines(lines) ==
    IF lines = <<>> THEN <<>>
    ELSE IF Strip(Head(lines)) # <<>>
         THEN <<Strip(Head(lines))>> \o StripLines(Tail(lines))
         ELSE StripLines(Tail(lines))

(* [d for d in input_data if is_valid_domain(d) or is_valid_ip_cidr(d)] *)
RECURSIVE FilterInput(_)
FilterInput(lst) ==
    IF lst = <<>> THEN <<>>
    ELSE IF is_valid_domain(Head(lst)) \/ is_valid_ip_cidr(Head(lst))
         THEN <<Head(lst)>> \o FilterInput(Tail(lst))
         ELSE FilterInput(Tail(lst))

-----------------------------------------------------------------------------
(* Sources *)
get_sources == {"Crt.sh", "Hackertarget", "RapidDNS"}

(* What a source's fetch returns for a domain when its request succeeds:   *)
(* crt.sh lists certificate names (wildcards included), hackertarget the   *)
(* first column of every line (blank and foreign lines included), RapidDNS *)
(* only the cells ending in ".<domain>".                                   *)
Found(source, d) ==
    CASE source = "Crt.sh" -> {d, <<"www">> \o d, <<"*">> \o d}
      [] source = "Hackertarget" -> {<<"www">> \o d, <<"mail">> \o d, <<>>, <<"evil", "net">>}
      [] source = "RapidDNS" -> IF d = DomB THEN {} ELSE {<<"mail">> \o d}

-----------------------------------------------------------------------------
Positions == 1..Len(domains)
(* Variant: a window one position wider than the step of the loop *)
BatchWide == {p \in Positions : i < p /\ p <= i + max_concurrent + 1}

Batch == {p \in Positions : i < p /\ p <= i + max_concurrent}       \* self.domains[i:i + max_concurrent]

CancelObserved == cancelArg = "event" /\ cancel_event               \* cancel_event and cancel_event.is_set()

Init ==
    /\ pc = "idle"
    /\ inputShape = "none"
    /\ cancelArg = "event"
    /\ botArg = "bot"
    /\ domains = <<>>
    /\ completed = 0
    /\ total = 0
    /\ all_subdomains = {}
    /\ i = 0
    /\ taskPc = <<>>
    /\ taskResult = <<>>
    /\ srcStatus = <<>>
    /\ fetch_calls = <<>>
    /\ cancel_event = FALSE
    /\ last_percentage = -1
    /\ progress_message_id = NoMessage
    /\ reports = <<>>
    /\ notifications = <<>>
    /\ progressCalls = <<>>
    /\ saved = <<>>
    /\ returnedUnion = {}
    /\ flagAtDispatch = <<>>
    /\ flagAtSubmit = <<>>
    /\ outcome = "none"
    /\ is_running = FALSE
    /\ last_message_id = "none"
    /\ hpc = "none"
    /\ pending = <<>>
    /\ active = 0
    /\ rejected = FALSE
    /\ cancelledThisRun = FALSE
    /\ prevCancelled = FALSE
    /\ sendPc = "idle"
    /\ sendArg = "none"
    /\ sendText = "none"
    /\ answers = <<>>
    /\ attempt = 0
    /\ tries = 0
    /\ slept = 0
    /\ chat = <<>>

(* await bot.send_message(kind) inside run_async's try block, after the     *)
(* console line of the same report.  With bot = None the call raises, the  *)
(* handler at lines 143-145 prints its own report and raises again.        *)
SendThen(b, kind, nextPc, out) ==
    IF b = "bot"
    THEN /\ reports' = Append(reports, kind)
         /\ pc' = nextPc
         /\ outcome' = out
    ELSE /\ reports' = reports \o <<kind, "error_during_scan">>
         /\ pc' = "finally"
         /\ outcome' = "raised"

(* run_async lines 78-118: reset, read the input, build self.domains.       *)
(* The removal of a stale output file (lines 113-118) touches only the     *)
(* file system and is left out.                                            *)
Setup(shape, ds, ce, b) ==
    /\ inputShape' = shape
    /\ cancelArg' = ce
    /\ botArg' = b
    /\ completed' = 0
    /\ i' = 0
    /\ all_subdomains' = {}
    /\ UNCHANGED <<cancel_event, last_percentage, progress_message_id, notifications,
                   progressCalls, saved, returnedUnion>>
    /\ IF ds = <<>>
       THEN /\ SendThen(b, "no_valid_domains", "finally", "no_domains")
            /\ domains' = <<>>
            /\ total' = 0
            /\ UNCHANGED <<taskPc, taskResult, srcStatus, fetch_calls, flagAtDispatch, flagAtSubmit>>
       ELSE /\ domains' = ds
            /\ total' = Len(ds)
            /\ taskPc' = [p \in 1..Len(ds) |-> "new"]
            /\ taskResult' = [p \in 1..Len(ds) |-> {}]
            /\ srcStatus' = [p \in 1..Len(ds) |-> [s \in get_sources |-> "idle"]]
            /\ fetch_calls' = [p \in 1..Len(ds) |-> [s \in get_sources |-> 0]]
            /\ flagAtDispatch' = [p \in 1..Len(ds) |-> FALSE]
            /\ flagAtSubmit' = [p \in 1..Len(ds) |-> FALSE]
            /\ pc' = "loop"
            /\ UNCHANGED <<reports, outcome>>

EarlyReturn(shape, kind, out, ce, b) ==
    /\ UNCHANGED <<flagAtDispatch, flagAtSubmit>>
    /\ inputShape' = shape
    /\ cancelArg' = ce
    /\ botArg' = b
    /\ SendThen(b, kind, "finally", out)
    /\ UNCHANGED <<domains, completed, total, all_subdomains, i, taskPc, taskResult, srcStatus,
                   fetch_calls, cancel_event, last_percentage, progress_message_id,
                   notifications, progressCalls, saved, returnedUnion>>

RunAsyncFile(ce, b) ==
    /\ pc = "idle"
    /\ \/ EarlyReturn("file", "error_reading_file", "file_error", ce, b)      \* open() raised
       \/ \E lines \in SeqsUpTo(FileLines, MaxLines) : Setup("file", StripLines(lines), ce, b)

RunAsyncList(ce, b) ==
    /\ pc = "idle"
    /\ \E lst \in ListInputs : Setup("list", FilterInput(lst), ce, b)

RunAsyncSingle(ce, b) ==
    /\ pc = "idle"
    /\ \E d \in Entries :
          IF is_valid_domain(d) \/ is_valid_ip_cidr(d)
          THEN Setup("single", <<d>>, ce, b)
          ELSE EarlyReturn("single", "invalid_input", "invalid_input", ce, b)

RunAsync ==
    \E ce \in {"event", "none"}, b \in {"bot", "none"} :
        \/ RunAsyncFile(ce, b)
        \/ RunAsyncList(ce, b)
        \/ RunAsyncSingle(ce, b)

-----------------------------------------------------------------------------
(* TelegramBot.update_progress(c / t).  Each of the up to three attempts    *)
(* either succeeds or raises; "not_modified" is Telegram's answer to an    *)
(* edit that changes nothing, on which the method returns at once.         *)
Percentage(c, t) == (100 * c) \div t                                \* int(progress * 100)
Filled(c, t) == (bar_length * c) \div t                             \* int(progress * bar_length)

(* Variant: no coalescing of equal percentages *)
SamePercentageNever(percentage) == FALSE

(* update_progress line 74 *)
SamePercentage(percentage) == percentage = last_percentage

update_progress(c, t) ==
    LET percentage == Percentage(c, t) IN
    IF SamePercentage(percentage)
    THEN UNCHANGED <<last_percentage, progress_message_id, notifications>>
    ELSE \E transport \in {"ok", "fail", "not_modified"}, deleted \in BOOLEAN :
            LET id == IF transport = "ok" /\ progress_message_id = NoMessage
                      THEN MessageId ELSE progress_message_id
                removed == percentage >= 100 /\ transport # "not_modified"
                           /\ deleted /\ id # NoMessage
            IN  /\ transport = "not_modified" => progress_message_id # NoMessage
                /\ (percentage < 100 \/ transport = "not_modified" \/ id = NoMessage) => ~deleted
                /\ notifications' = IF transport = "ok"
                                    THEN Append(notifications, percentage) ELSE notifications
                /\ progress_message_id' = IF removed THEN NoMessage ELSE id
                /\ last_percentage' = IF removed THEN -1 ELSE percentage

-----------------------------------------------------------------------------
(* run_async lines 121-127: the top of one loop iteration *)
WindowStart ==
    /\ pc = "loop"
    /\ IF i >= Len(domains)
       THEN /\ pc' = "after_loop"
            /\ UNCHANGED <<taskPc, flagAtDispatch, reports, outcome>>
       ELSE IF CancelObserved
            THEN /\ SendThen(botArg, "scan_cancelled", "after_loop", outcome)
                 /\ UNCHANGED <<taskPc, flagAtDispatch>>
            ELSE /\ taskPc' = [p \in Positions |-> IF p \in Batch THEN "ready" ELSE taskPc[p]]
                 /\ flagAtDispatch' = [p \in Positions |->
                                         IF p \in Batch THEN cancel_event ELSE flagAtDispatch[p]]
                 /\ pc' = "gather"
                 /\ UNCHANGED <<reports, outcome>>
    /\ UNCHANGED <<inputShape, cancelArg, botArg, domains, completed, total, all_subdomains, i,
                   taskResult, srcStatus, fetch_calls, cancel_event, last_percentage,
                   progress_message_id, notifications, progressCalls, saved, returnedUnion,
                   flagAtSubmit>>

(* The event loop runs one coroutine at a time: a coroutine inside the     *)
(* ThreadPoolExecutor block (lines 64-66) holds the loop until it returns. *)
LoopFree == \A q \in Positions : taskPc[q] # "fetching"

(* Variant: the coordinator admits whatever run_async admitted *)
ValidOrIpForFetch(d) == is_valid_domain(d) \/ is_valid_ip_cidr(d)

(* process_domain's check of the domain, lines 56-59 *)
ValidForFetch(d) == is_valid_domain(d)

(* executor.submit for every source, line 65.  get_sources has fewer       *)
(* entries than max_workers, so every submitted call gets a worker at once *)
Submit(p) == [srcStatus EXCEPT ![p] = [s \in get_sources |-> "running"]]

(* Variant: the coordinator has no cancellation checkpoint *)
CancelCheckpointMissing == FALSE

(* process_domain lines 52-54: cancel_event.is_set() *)
CancelCheckpoint == cancel_event

(* process_domain lines 52-65: first step of the coroutine of position p *)
ProcessDomainStart(p) ==
    /\ pc = "gather"
    /\ p \in Batch
    /\ taskPc[p] = "ready"
    /\ \A q \in Batch : q < p => taskPc[q] # "ready"
    /\ LoopFree
    /\ IF cancelArg = "none"
       THEN /\ taskPc' = [taskPc EXCEPT ![p] = "raised"]                  \* None.is_set()
            /\ UNCHANGED <<taskResult, srcStatus, fetch_calls, reports, flagAtSubmit>>
       ELSE IF CancelCheckpoint
            THEN /\ taskPc' = [taskPc EXCEPT ![p] = "done"]
                 /\ taskResult' = [taskResult EXCEPT ![p] = {}]
                 /\ UNCHANGED <<srcStatus, fetch_calls, reports, flagAtSubmit>>
            ELSE IF ~ValidForFetch(domains[p])
                 THEN /\ taskPc' = [taskPc EXCEPT ![p] = "sending"]
                      /\ reports' = Append(reports, "invalid_domain")
                      /\ UNCHANGED <<taskResult, srcStatus, fetch_calls, flagAtSubmit>>
                 ELSE /\ taskPc' = [taskPc EXCEPT ![p] = "fetching"]
                      /\ srcStatus' = Submit(p)
                      /\ fetch_calls' = [fetch_calls EXCEPT ![p] = [s \in get_sources |-> @[s] + 1]]
                      /\ flagAtSubmit' = [flagAtSubmit EXCEPT ![p] = cancel_event]
                      /\ UNCHANGED <<taskResult, reports>>
    /\ UNCHANGED <<pc, inputShape, cancelArg, botArg, domains, completed, total, all_subdomains,
                   i, cancel_event, last_percentage, progress_message_id, notifications,
                   progressCalls, saved, returnedUnion, flagAtDispatch, outcome>>

(* process_domain line 59: the await of send_message is over *)
ProcessDomainInvalidReturn(p) ==
    /\ UNCHANGED <<flagAtDispatch, flagAtSubmit>>
    /\ pc = "gather"
    /\ taskPc[p] = "sending"
    /\ LoopFree
    /\ taskPc' = [taskPc EXCEPT ![p] = "done"]
    /\ taskResult' = [taskResult EXCEPT ![p] = {}]
    /\ UNCHANGED <<pc, inputShape, cancelArg, botArg, domains, completed, total, all_subdomains,
                   i, srcStatus, fetch_calls, cancel_event, last_percentage,
                   progress_message_id, reports, notifications, progressCalls, saved,
                   returnedUnion, outcome>>

(* _fetch_from_source lines 22-28, in a worker thread: source.fetch and    *)
(* the filter either return or raise; a raise is caught and logged.        *)
FetchOutcome(raises) == IF raises THEN "raised" ELSE "found"

FetchFromSource(p, s) ==
    /\ UNCHANGED <<flagAtDispatch, flagAtSubmit>>
    /\ taskPc[p] = "fetching"
    /\ srcStatus[p][s] = "running"
    /\ \E raises \in BOOLEAN : srcStatus' = [srcStatus EXCEPT ![p][s] = FetchOutcome(raises)]
    /\ UNCHANGED <<pc, inputShape, cancelArg, botArg, domains, completed, total, all_subdomains,
                   i, taskPc, taskResult, fetch_calls, cancel_event, last_percentage,
                   progress_message_id, reports, notifications, progressCalls, saved,
                   returnedUnion, outcome>>

(* Variant: the adapter's raw output is returned without the filter *)
FutureResultUnfiltered(p, s) ==
    IF srcStatus[p][s] = "found" THEN Found(s, domains[p]) ELSE {}

(* _fetch_from_source lines 24-28: the value a finished future holds *)
FutureResult(p, s) ==
    IF srcStatus[p][s] = "found"
    THEN filter_valid_subdomains(Found(s, domains[p]), domains[p])
    ELSE {}

(* Variant: one raising adapter discards the whole domain *)
MergeAbortOnFailure(p) ==
    IF \E s \in get_sources : srcStatus[p][s] = "raised"
    THEN {}
    ELSE UNION {FutureResult(p, s) : s \in get_sources}

(* process_domain lines 66-75: the union of the futures' results *)
Merge(p) == UNION {FutureResult(p, s) : s \in get_sources}

(* Variant: the coordinator goes on as soon as one future is done *)
AnyFutureDone(p) == \E s \in get_sources : srcStatus[p][s] \in {"found", "raised"}

(* process_domain lines 63-66: as_completed has yielded every future and   *)
(* the executor block has been left                                        *)
AllFuturesDone(p) == \A s \in get_sources : srcStatus[p][s] \in {"found", "raised"}

(* process_domain lines 66-75 *)
ProcessDomainReturn(p) ==
    /\ UNCHANGED <<flagAtDispatch, flagAtSubmit>>
    /\ taskPc[p] = "fetching"
    /\ AllFuturesDone(p)
    /\ taskPc' = [taskPc EXCEPT ![p] = "done"]
    /\ taskResult' = [taskResult EXCEPT ![p] = Merge(p)]
    /\ returnedUnion' = returnedUnion \cup Merge(p)
    /\ srcStatus' = [srcStatus EXCEPT ![p] = [s \in get_sources |-> "idle"]]
    /\ UNCHANGED <<pc, inputShape, cancelArg, botArg, domains, completed, total, all_subdomains,
                   i, fetch_calls, cancel_event, last_percentage, progress_message_id,
                   reports, notifications, progressCalls, saved, outcome>>

-----------------------------------------------------------------------------
(* run_async line 129: len([r for r in results if isinstance(r, set)]) *)
CountSets == Cardinality({p \in Batch : taskPc[p] = "done"})

(* Variant: the counter is assigned instead of incremented *)
NewCompletedAssigned == CountSets

NewCompleted == completed + CountSets                               \* self.completed += ...

(* Variant: each window replaces the accumulated set *)
AccumulateReplacing == UNION {taskResult[p] : p \in {q \in Batch : taskPc[q] = "done"}}

(* run_async lines 131-135: all_subdomains.update(result) for every set *)
Accumulate == all_subdomains \cup UNION {taskResult[p] : p \in {q \in Batch : taskPc[q] = "done"}}

(* run_async lines 128-136: gather has returned, the rest of the iteration *)
WindowJoin ==
    /\ UNCHANGED <<flagAtDispatch, flagAtSubmit>>
    /\ pc = "gather"
    /\ \A p \in Batch : taskPc[p] \in {"done", "raised"}
    /\ completed' = NewCompleted
    /\ IF botArg = "none"
       THEN /\ reports' = Append(reports, "error_during_scan")            \* None.update_progress
            /\ pc' = "finally"
            /\ outcome' = "raised"
            /\ UNCHANGED <<all_subdomains, i, taskPc, taskResult, last_percentage,
                           progress_message_id, notifications, progressCalls>>
       ELSE /\ progressCalls' = Append(progressCalls, <<NewCompleted, total>>)
            /\ update_progress(NewCompleted, total)
            /\ all_subdomains' = Accumulate
            /\ i' = i + max_concurrent
            /\ taskPc' = [p \in Positions |-> IF p \in Batch THEN "joined" ELSE taskPc[p]]
            /\ taskResult' = [p \in Positions |-> IF p \in Batch THEN {} ELSE taskResult[p]]
            /\ pc' = "loop"
            /\ UNCHANGED <<reports, outcome>>
    /\ UNCHANGED <<inputShape, cancelArg, botArg, domains, total, srcStatus, fetch_calls,
                   cancel_event, saved, returnedUnion>>

(* save_subdomains lines 30-49 *)
save_subdomains(subdomains) ==
    /\ saved' = Append(saved, subdomains)
    /\ IF subdomains # {}
       THEN \E io \in {"ok", "write_fails", "remove_fails"} :
               /\ reports' = reports \o
                     (CASE io = "ok" -> <<"results_saved">>
                        [] io = "write_fails" -> <<"error_saving">>
                        [] io = "remove_fails" -> <<"results_saved", "error_deleting_file">>)
               /\ outcome' = IF io = "write_fails" THEN "save_error" ELSE "saved"
       ELSE /\ reports' = Append(reports, "no_subdomains_found")
            /\ outcome' = "no_results"

(* run_async lines 138-142 *)
AfterLoop ==
    /\ UNCHANGED <<flagAtDispatch, flagAtSubmit>>
    /\ pc = "after_loop"
    /\ IF CancelObserved
       THEN /\ outcome' = "withheld"
            /\ UNCHANGED <<saved, reports>>
       ELSE save_subdomains(all_subdomains)
    /\ pc' = "finally"
    /\ UNCHANGED <<inputShape, cancelArg, botArg, domains, completed, total, all_subdomains, i,
                   taskPc, taskResult, srcStatus, fetch_calls, cancel_event, last_percentage,
                   progress_message_id, notifications, progressCalls, returnedUnion>>

(* run_async lines 146-148 *)
Finally ==
    /\ pc = "finally"
    /\ domains' = <<>>
    /\ completed' = 0
    /\ taskPc' = <<>>
    /\ taskResult' = <<>>
    /\ srcStatus' = <<>>
    /\ fetch_calls' = <<>>
    /\ flagAtDispatch' = <<>>
    /\ flagAtSubmit' = <<>>
    /\ pc' = "returned"
    /\ UNCHANGED <<inputShape, cancelArg, botArg, total, all_subdomains, i, cancel_event,
                   last_percentage, progress_message_id, reports, notifications,
                   progressCalls, saved, returnedUnion, outcome>>

(* TelegramBot.cancel lines 46-54, authorized chat, while the scan that    *)
(* was given the bot's event is running                                    *)
Cancel ==
    /\ UNCHANGED <<flagAtDispatch, flagAtSubmit>>
    /\ pc \notin {"idle", "returned"}
    /\ cancelArg = "event"
    /\ ~cancel_event
    /\ cancel_event' = TRUE
    /\ UNCHANGED <<pc, inputShape, cancelArg, botArg, domains, completed, total, all_subdomains,
                   i, taskPc, taskResult, srcStatus, fetch_calls, last_percentage,
                   progress_message_id, reports, notifications, progressCalls, saved,
                   returnedUnion, outcome>>

Next ==
    \/ RunAsync /\ UNCHANGED <<botVars, sendVars>>
    \/ WindowStart /\ UNCHANGED <<botVars, sendVars>>
    \/ \E p \in Positions : ProcessDomainStart(p) /\ UNCHANGED <<botVars, sendVars>>
    \/ \E p \in Positions : ProcessDomainInvalidReturn(p) /\ UNCHANGED <<botVars, sendVars>>
    \/ \E p \in Positions, s \in get_sources : FetchFromSource(p, s) /\ UNCHANGED <<botVars, sendVars>>
    \/ \E p \in Positions : ProcessDomainReturn(p) /\ UNCHANGED <<botVars, sendVars>>
    \/ WindowJoin /\ UNCHANGED <<botVars, sendVars>>
    \/ AfterLoop /\ UNCHANGED <<botVars, sendVars>>
    \/ Finally /\ UNCHANGED <<botVars, sendVars>>
    \/ Cancel /\ UNCHANGED <<botVars, sendVars>>

Spec == Init /\ [][Next]_vars

TypeOK ==
    /\ pc \in {"idle", "loop", "gather", "after_loop", "finally", "returned"}
    /\ completed \in 0..(MaxDomains + 1)
    /\ cancel_event \in BOOLEAN
    /\ last_percentage \in -1..100
    /\ is_running \in BOOLEAN
    /\ last_message_id \in MessageIds \cup {"none"}
    /\ hpc \in {"none", "downloading", "accepted", "running", "replying"}
    /\ active \in 0..1

-----------------------------------------------------------------------------
(* The bot's update handlers.  A handler runs on the event loop and can be *)
(* interleaved with other handlers only where it awaits: each action below *)
(* is the code between two awaits.  Replies sent with _send_message change *)
(* no state of the bot and are not recorded, except the rejection of a     *)
(* scan request.                                                           *)

(* The non-blank lines of a text message or of a .txt file: short lists,   *)
(* and the longest list of one domain, which takes more than one window    *)
HandlerInputs ==
    SeqsUpTo({DomA, IpCidr, Garbage}, MaxLines) \cup {[k \in 1..MaxDomains |-> DomA]}

(* Variant: a scan request is never turned away *)
IsBusyNever == FALSE

(* handle_text line 134, handle_document line 176: if self.is_running *)
IsBusy == is_running

(* Variant: the flag of the previous scan is kept *)
ClearEventSkipped == cancel_event

(* handle_text line 143, handle_document line 186: self.cancel_event.clear() *)
ClearEvent == FALSE

RunVarsUnchanged ==
    UNCHANGED <<pc, inputShape, cancelArg, botArg, domains, completed, total, all_subdomains,
                i, taskPc, taskResult, srcStatus, fetch_calls, reports, notifications,
                progressCalls, saved, returnedUnion, flagAtDispatch, flagAtSubmit, outcome>>

(* handle_text lines 143-146, handle_document lines 186-189 *)
Accept(id, next, lst) ==
    /\ last_message_id' = id
    /\ cancel_event' = ClearEvent
    /\ is_running' = TRUE
    /\ progress_message_id' = NoMessage
    /\ last_percentage' = -1
    /\ hpc' = next
    /\ pending' = lst
    /\ active' = active + 1
    /\ UNCHANGED <<rejected, cancelledThisRun, prevCancelled>>
    /\ RunVarsUnchanged

(* The reply "A scan is already in progress", lines 135-136 and 177-178 *)
Reject(id) ==
    /\ last_message_id' = id
    /\ rejected' = TRUE
    /\ UNCHANGED <<is_running, hpc, pending, active, cancelledThisRun, prevCancelled,
                   cancel_event, progress_message_id, last_percentage>>
    /\ RunVarsUnchanged

(* A reply and return before the handler has touched the scan state *)
ReplyOnly(id) ==
    /\ last_message_id' = id
    /\ UNCHANGED <<is_running, hpc, pending, active, rejected, cancelledThisRun, prevCancelled,
                   cancel_event, progress_message_id, last_percentage>>
    /\ RunVarsUnchanged

(* handle_text lines 143-151 and 162-165 when open() raises: the finally   *)
(* block runs before any await                                             *)
AcceptAndRaise(id) ==
    /\ last_message_id' = id
    /\ cancel_event' = ClearEvent
    /\ progress_message_id' = NoMessage
    /\ last_percentage' = -1
    /\ UNCHANGED <<is_running, hpc, pending, active, rejected, cancelledThisRun, prevCancelled>>
    /\ RunVarsUnchanged

(* handle_text lines 124-161, up to the first await.  text is the list of  *)
(* the stripped non-blank lines of the message ("text") or of the file the *)
(* message names ("file"; "unreadable" when opening it raises).            *)
HandleText(authorized, id) ==
    IF ~authorized \/ id = last_message_id
    THEN UNCHANGED vars                                         \* lines 125-131
    ELSE IF IsBusy
         THEN Reject(id)
         ELSE \E kind \in {"text", "file", "unreadable"}, text \in HandlerInputs :
                 IF kind = "text" /\ text = <<>>
                 THEN ReplyOnly(id)                             \* lines 139-141
                 ELSE IF kind = "unreadable"
                      THEN AcceptAndRaise(id)
                      ELSE IF text = <<>>
                           THEN Accept(id, "replying", <<>>)   \* lines 152-154
                           ELSE Accept(id, "accepted", text)

(* handle_document lines 167-191, up to the first await *)
HandleDocument(authorized, id) ==
    IF ~authorized \/ id = last_message_id
    THEN UNCHANGED vars                                         \* lines 168-174
    ELSE IF IsBusy
         THEN Reject(id)
         ELSE \E isTxt \in BOOLEAN :
                 IF ~isTxt
                 THEN ReplyOnly(id)                             \* lines 181-184
                 ELSE Accept(id, "downloading", <<>>)

(* handle_document lines 191-201: get_file and download_to_drive have      *)
(* returned or raised, the file was read                                   *)
DocumentLoaded ==
    /\ hpc = "downloading"
    /\ \/ /\ hpc' = "replying"                                  \* except, or an empty file
          /\ pending' = <<>>
       \/ \E lst \in HandlerInputs \ {<<>>} :
             /\ hpc' = "accepted"
             /\ pending' = lst
    /\ UNCHANGED <<is_running, last_message_id, active, rejected, cancelledThisRun,
                   prevCancelled, cancel_event, progress_message_id, last_percentage>>
    /\ RunVarsUnchanged

(* handle_text lines 155 and 161, handle_document line 203: the call of    *)
(* run_async with the list, the bot's event and the bot                    *)
HandlerRunAsync ==
    /\ hpc = "accepted"
    /\ pc = "idle"
    /\ Setup("list", FilterInput(pending), "event", "bot")
    /\ hpc' = "running"
    /\ pending' = <<>>
    /\ UNCHANGED <<is_running, last_message_id, active, rejected, cancelledThisRun,
                   prevCancelled>>

(* The finally blocks, lines 162-165 and 211-214, reached when run_async   *)
(* has returned or after the reply of an early return or of the except     *)
(* clause.  The records of the finished run are dropped.                   *)
HandlerFinally ==
    /\ \/ hpc = "replying"
       \/ hpc = "running" /\ pc = "returned"
    /\ is_running' = FALSE
    /\ progress_message_id' = NoMessage
    /\ last_percentage' = -1
    /\ hpc' = "none"
    /\ pending' = <<>>
    /\ active' = active - 1
    /\ rejected' = FALSE
    /\ prevCancelled' = cancelledThisRun
    /\ cancelledThisRun' = FALSE
    /\ pc' = "idle"
    /\ inputShape' = "none"
    /\ total' = 0
    /\ all_subdomains' = {}
    /\ i' = 0
    /\ reports' = <<>>
    /\ notifications' = <<>>
    /\ progressCalls' = <<>>
    /\ saved' = <<>>
    /\ returnedUnion' = {}
    /\ outcome' = "none"
    /\ UNCHANGED <<cancelArg, botArg, domains, completed, taskPc, taskResult, srcStatus,
                   fetch_calls, flagAtDispatch, flagAtSubmit, cancel_event, last_message_id>>

(* TelegramBot.cancel lines 46-54 *)
CancelHandler(authorized) ==
    IF authorized /\ is_running
    THEN /\ cancel_event' = TRUE
         /\ cancelledThisRun' = TRUE
         /\ UNCHANGED <<is_running, last_message_id, hpc, pending, active, rejected,
                        prevCancelled, progress_message_id, last_percentage>>
         /\ RunVarsUnchanged
    ELSE UNCHANGED vars

BotNext ==
    \/ \E a \in BOOLEAN, id \in MessageIds : HandleText(a, id) /\ UNCHANGED sendVars
    \/ \E a \in BOOLEAN, id \in MessageIds : HandleDocument(a, id) /\ UNCHANGED sendVars
    \/ DocumentLoaded /\ UNCHANGED sendVars
    \/ HandlerRunAsync /\ UNCHANGED sendVars
    \/ \E a \in BOOLEAN : CancelHandler(a) /\ UNCHANGED sendVars
    \/ HandlerFinally /\ UNCHANGED sendVars
    \/ WindowStart /\ UNCHANGED <<botVars, sendVars>>
    \/ \E p \in Positions : ProcessDomainStart(p) /\ UNCHANGED <<botVars, sendVars>>
    \/ \E p \in Positions : ProcessDomainInvalidReturn(p) /\ UNCHANGED <<botVars, sendVars>>
    \/ \E p \in Positions, s \in get_sources : FetchFromSource(p, s) /\ UNCHANGED <<botVars, sendVars>>
    \/ \E p \in Positions : ProcessDomainReturn(p) /\ UNCHANGED <<botVars, sendVars>>
    \/ WindowJoin /\ UNCHANGED <<botVars, sendVars>>
    \/ AfterLoop /\ UNCHANGED <<botVars, sendVars>>
    \/ Finally /\ UNCHANGED <<botVars, sendVars>>

BotSpec == Init /\ [][BotNext]_vars

-----------------------------------------------------------------------------
(* Sending a text to the chat.  The pipeline reports through               *)
(* TelegramBot.send_message, the handlers reply through _send_message with *)
(* the message of the update they answer.                                  *)

(* The texts run_async, process_domain and save_subdomains pass to         *)
(* bot.send_message                                                        *)
PipelineReports == {"invalid_domain", "scan_cancelled", "no_subdomains_found",
                    "error_saving", "error_during_scan", "error_deleting_file",
                    "no_valid_domains", "invalid_input", "error_reading_file"}

(* The texts the handlers pass to _send_message *)
HandlerReplies == {"unauthorized", "already_in_progress", "provide_input", "no_domains_in_file",
                   "upload_txt", "error_processing_file", "cancellation_requested",
                   "no_scan_running"}

(* What the transport answers to an attempt that reaches it *)
TransportAnswers == {"ok", "conflict", "error"}

(* TelegramBot.send_message line 217: _send_message(None, message) *)
SendMessageArg == "None"

(* A handler's call, e.g. line 135: _send_message(update.message, text) *)
ReplyArg == "update.message"

(* The call _send_message(message, text) begins; answers fixes what the    *)
(* chat service would answer to each attempt that reaches it.              *)
SendCall(message, text, tr) ==
    /\ sendPc = "idle"
    /\ sendArg' = message
    /\ sendText' = text
    /\ answers' = tr
    /\ attempt' = 0
    /\ tries' = 0
    /\ slept' = 0
    /\ chat' = <<>>
    /\ sendPc' = "attempt"

(* TelegramBot.send_message lines 216-217 *)
SendMessage ==
    \E text \in PipelineReports, tr \in [1..max_retries -> TransportAnswers] :
        SendCall(SendMessageArg, text, tr)

(* A handler's reply through _send_message *)
Reply ==
    \E text \in HandlerReplies, tr \in [1..max_retries -> TransportAnswers] :
        SendCall(ReplyArg, text, tr)

(* _send_message line 59: message.reply_text(text).  On None the attribute *)
(* access raises AttributeError before anything reaches the transport.     *)
ReplyText == IF sendArg = SendMessageArg THEN "error" ELSE answers[attempt + 1]

(* _send_message lines 57-69: one iteration of the loop over the attempts  *)
SendAttempt ==
    /\ sendPc = "attempt"
    /\ tries' = tries + 1
    /\ IF ReplyText = "ok"
       THEN /\ chat' = Append(chat, sendText)                     \* line 59
            /\ sendPc' = "returned"                                \* line 61
            /\ UNCHANGED <<attempt, slept>>
       ELSE /\ UNCHANGED chat
            /\ IF attempt < max_retries - 1
               THEN /\ slept' = slept + 2 ^ attempt                \* lines 64-65, 68-69
                    /\ attempt' = attempt + 1
                    /\ UNCHANGED sendPc
               ELSE /\ sendPc' = "returned"                        \* the loop is exhausted
                    /\ UNCHANGED <<attempt, slept>>
    /\ UNCHANGED <<sendArg, sendText, answers>>

(* The caller goes on; the records of the call are dropped *)
SendReturn ==
    /\ sendPc = "returned"
    /\ sendPc' = "idle"
    /\ sendArg' = "none"
    /\ sendText' = "none"
    /\ answers' = <<>>
    /\ attempt' = 0
    /\ tries' = 0
    /\ slept' = 0
    /\ chat' = <<>>

SendNext ==
    \/ SendMessage /\ UNCHANGED <<runVars, botVars>>
    \/ Reply /\ UNCHANGED <<runVars, botVars>>
    \/ SendAttempt /\ UNCHANGED <<runVars, botVars>>
    \/ SendReturn /\ UNCHANGED <<runVars, botVars>>

SendSpec == Init /\ [][SendNext]_vars

-----------------------------------------------------------------------------
(* Properties *)

AllInvoked(p) == \A s \in get_sources : fetch_calls[p][s] >= 1
NoneInvoked(p) == \A s \in get_sources : fetch_calls[p][s] = 0
NoDuplicates(q) == \A j, k \in 1..Len(q) : j # k => q[j] # q[k]
TerminalReports == {"results_saved", "no_subdomains_found", "scan_cancelled", "error_saving",
                    "error_during_scan", "error_reading_file", "invalid_input",
                    "no_valid_domains"}
CountTerminal == Cardinality({k \in 1..Len(reports) : reports[k] \in TerminalReports})

(* C1: failure isolation.  When a domain's coordinator returns, every       *)
(* adapter was invoked, the result is exactly the union of the filtered    *)
(* hostnames of the adapters that did not raise (a raising adapter adds    *)
(* nothing, every other adapter's hostnames are present), and a raising    *)
(* adapter never ends the run with an error.                               *)
C1_FailureIsolation ==
    /\ [][\A p \in Positions :
            (taskPc[p] = "fetching" /\ taskPc'[p] # "fetching") =>
                /\ taskPc'[p] = "done"
                /\ AllInvoked(p)
                /\ taskResult'[p] =
                      UNION {filter_valid_subdomains(Found(s, domains[p]), domains[p]) :
                               s \in {r \in get_sources : srcStatus[p][r] = "found"}}]_vars
    /\ [](botArg = "bot" => outcome \notin {"error", "raised"})

(* C1 witness: Crt.sh and Hackertarget raised for a.com, RapidDNS's        *)
(* hostname is the result, and a later domain is being fetched.            *)
C1_Witness ==
    \E p, q \in Positions :
        /\ p < q
        /\ domains[p] = DomA
        /\ taskPc[p] = "done"
        /\ AllInvoked(p)
        /\ taskResult[p] = {<<"mail", "a", "com">>}
        /\ taskPc[q] = "fetching"

(* C2 as stated: no adapter is invoked for a domain of a window that       *)
(* starts after the flag is raised, and every valid domain of a window     *)
(* that was dispatched has run all its adapters by the time its            *)
(* coordinator has returned.                                               *)
C2_StartedWindowRunsAll ==
    \A p \in Positions :
        /\ taskPc[p] # "new" => ~flagAtDispatch[p]
        /\ (cancelArg = "event" /\ taskPc[p] \in {"done", "joined"}
              /\ is_valid_domain(domains[p])) => AllInvoked(p)

(* C2 amended: no window is dispatched and no adapter is submitted while   *)
(* the flag is set; a coordinator that passed its own checkpoint (lines    *)
(* 52-54) before the flag was raised has every adapter invoked and returns *)
(* only when all of them have finished; a coordinator of a dispatched      *)
(* window that reaches its checkpoint after the flag was raised returns    *)
(* the empty set without invoking any adapter.                             *)
C2_CancellationCheckpoints ==
    /\ [](\A p \in Positions :
            /\ taskPc[p] # "new" => ~flagAtDispatch[p]
            /\ ~NoneInvoked(p) => ~flagAtSubmit[p]
            /\ taskPc[p] = "fetching" => AllInvoked(p))
    /\ [][\A p \in Positions :
            /\ (taskPc[p] = "fetching" /\ taskPc'[p] # "fetching") =>
                  /\ taskPc'[p] = "done"
                  /\ \A s \in get_sources : srcStatus[p][s] \in {"found", "raised"}
            /\ (taskPc[p] = "ready" /\ cancelArg = "event" /\ cancel_event
                  /\ taskPc'[p] # "ready") =>
                  /\ taskPc'[p] = "done"
                  /\ taskResult'[p] = {}
                  /\ NoneInvoked(p)
                  /\ fetch_calls'[p] = fetch_calls[p]]_vars

(* C2 witness: the flag is set, one domain of the window ran all its       *)
(* adapters and has a result, a later valid domain of the same window was  *)
(* skipped at its checkpoint.                                              *)
C2_Witness ==
    /\ cancel_event
    /\ \E p, q \in Batch :
          /\ p < q
          /\ taskPc[p] = "done" /\ AllInvoked(p) /\ taskResult[p] # {}
          /\ taskPc[q] = "done" /\ NoneInvoked(q) /\ is_valid_domain(domains[q])

(* C3: when run_async returns with the results withheld because of the     *)
(* flag, the hostnames accumulated so far have been handed to the result   *)
(* sink.                                                                   *)
C3_PartialResultDelivered ==
    (pc = "returned" /\ outcome = "withheld" /\ all_subdomains # {}) =>
        (saved # <<>> /\ saved[Len(saved)] = all_subdomains)

(* C4: a run driven through a bot ends with exactly one terminal report,   *)
(* and a run whose results are withheld because of the flag has issued     *)
(* the "Scan cancelled" report.                                            *)
C4_OneTerminalReport ==
    (pc = "returned" /\ botArg = "bot") =>
        /\ CountTerminal = 1
        /\ outcome = "withheld" => \E k \in 1..Len(reports) : reports[k] = "scan_cancelled"

(* C5: the set handed to save_subdomains is the union of the sets the      *)
(* coordinators of all scheduled domains returned; it is handed over once, *)
(* after every domain's window was joined, whatever the order in which     *)
(* adapters and coordinators finished.                                     *)
C5_SavedIsUnion ==
    saved # <<>> =>
        /\ Len(saved) = 1
        /\ saved[1] = returnedUnion
        /\ pc = "finally" => \A p \in Positions : taskPc[p] = "joined"

(* C5 witness: two windows were joined and the saved set holds hostnames   *)
(* of a domain of the first and of the second window.                      *)
C5_Witness ==
    /\ pc = "finally"
    /\ saved # <<>>
    /\ Len(progressCalls) = 2
    /\ \E h \in saved[1] : IsSubordinate(h, DomA)
    /\ \E h \in saved[1] : IsSubordinate(h, DomB)
    /\ domains[Len(domains)] = DomB
    /\ \A p \in 1..max_concurrent : domains[p] = DomA

(* C6: an adapter is treated as an empty contribution only after three     *)
(* failed attempts.                                                        *)
C6_ThreeAttempts ==
    \A p \in Positions : \A s \in get_sources :
        srcStatus[p][s] = "raised" => fetch_calls[p][s] = 3

(* C7: completed stays within 0..total and does not decrease while the     *)
(* run is in its loop; every fraction passed to update_progress is within  *)
(* [0, 1] and the fractions do not decrease.                               *)
C7_ProgressBounded ==
    /\ [](/\ 0 <= completed /\ completed <= total
          /\ \A k \in 1..Len(progressCalls) :
                /\ progressCalls[k][2] > 0
                /\ 0 <= progressCalls[k][1]
                /\ progressCalls[k][1] <= progressCalls[k][2]
                /\ k > 1 => /\ progressCalls[k][2] = progressCalls[k - 1][2]
                            /\ progressCalls[k - 1][1] <= progressCalls[k][1])
    /\ [][(pc \in {"loop", "gather", "after_loop"}) => completed' >= completed]_vars

(* C7 witness: two windows reported, the second fraction above the first   *)
C7_Witness ==
    /\ Len(progressCalls) = 2
    /\ progressCalls[1][1] > 0
    /\ progressCalls[1][1] < progressCalls[2][1]

(* C8: when an uncancelled run reaches its end, completed equals total     *)
C8_FinalProgressIsTotal ==
    (pc = "finally" /\ outcome \in {"saved", "no_results", "save_error"}) => completed = total

(* C9: no percentage is notified twice within a run, and a call of         *)
(* update_progress with the percentage last reported emits nothing.        *)
C9_NoDuplicatePercentage ==
    /\ [](NoDuplicates(notifications))
    /\ [][(pc = "gather" /\ pc' = "loop"
             /\ Percentage(completed', total) = last_percentage)
          => notifications' = notifications]_vars

(* C9 witness: update_progress was called twice with the same percentage   *)
(* and one notification was emitted.                                       *)
C9_Witness ==
    /\ Len(progressCalls) = 2
    /\ Percentage(progressCalls[1][1], progressCalls[1][2])
         = Percentage(progressCalls[2][1], progressCalls[2][2])
    /\ Len(notifications) = 1

(* C10: fetch is invoked only for positions whose domain passes            *)
(* is_valid_domain, whatever the input shape; a domain that fails it       *)
(* returns the empty set and the run goes on.                              *)
C10_OnlyValidDomainsFetched ==
    /\ \A p \in Positions :
          /\ ~NoneInvoked(p) => is_valid_domain(domains[p])
          /\ srcStatus[p] # [s \in get_sources |-> "idle"] => is_valid_domain(domains[p])
          /\ (~is_valid_domain(domains[p]) /\ taskPc[p] = "done") => taskResult[p] = {}
    /\ botArg = "bot" => outcome \notin {"error", "raised"}

(* C10 witness: a file whose first line is not a domain; that entry has    *)
(* returned without a fetch and the next domain is being fetched.          *)
C10_Witness ==
    /\ inputShape = "file"
    /\ Len(domains) = 2
    /\ domains[1] = Garbage
    /\ taskPc[1] = "done" /\ NoneInvoked(1) /\ taskResult[1] = {}
    /\ taskPc[2] = "fetching"

(* The hostnames the filter returns for the domains of the run whose       *)
(* adapters were invoked                                                   *)
FilteredOfFetched ==
    UNION {filter_valid_subdomains(Found(s, domains[p]), domains[p]) :
             p \in {q \in Positions : AllInvoked(q)}, s \in get_sources}

(* C11: every hostname of the run-level set, and of the set handed to      *)
(* save_subdomains, was returned by filter_valid_subdomains for a domain   *)
(* of the run whose adapters were invoked: it is a valid hostname          *)
(* subordinate to that domain, never raw adapter output and never a        *)
(* hostname of a domain that was skipped.                                  *)
C11_OnlyFilteredHostnames ==
    pc # "returned" =>
        /\ all_subdomains \subseteq FilteredOfFetched
        /\ \A k \in 1..Len(saved) : saved[k] \subseteq FilteredOfFetched
        /\ \A h \in all_subdomains :
              \E p \in Positions :
                  /\ AllInvoked(p)
                  /\ is_valid_domain(domains[p])
                  /\ IsValidHostname(h)
                  /\ IsSubordinate(h, domains[p])

(* C11 witness: a run over an IP range, which is skipped, and a.com, whose *)
(* adapters returned hostnames the filter drops; a non-empty set is saved. *)
C11_Witness ==
    /\ pc = "finally"
    /\ Len(saved) = 1 /\ saved[1] # {}
    /\ \E p, q \in Positions :
          /\ domains[p] = IpCidr /\ NoneInvoked(p)
          /\ domains[q] = DomA /\ AllInvoked(q)
          /\ \E s \in get_sources :
                ~(Found(s, DomA) \subseteq filter_valid_subdomains(Found(s, DomA), DomA))

(* The cancellation flag was not raised during the run *)
Uncancelled == ~(cancelArg = "event" /\ cancel_event)

(* C12: on every uncancelled run with at least one scheduled domain,       *)
(* save_subdomains has been invoked exactly once when the run is over,     *)
(* after the last window and with the run-level set; for the empty set no  *)
(* file is written or sent and "No subdomains found" is reported; for a    *)
(* non-empty set the file write is attempted (written and sent unless the  *)
(* write itself raises) and "No subdomains found" is not reported.         *)
C12_SavedExactlyOnce ==
    /\ Len(saved) <= 1
    /\ (pc \in {"finally", "returned"} /\ total > 0 /\ Uncancelled) =>
          /\ Len(saved) = 1
          /\ saved[1] = all_subdomains
          /\ pc = "finally" => \A p \in Positions : taskPc[p] = "joined"
          /\ saved[1] = {} =>
                /\ outcome = "no_results"
                /\ "no_subdomains_found" \in Range(reports)
                /\ "results_saved" \notin Range(reports)
          /\ saved[1] # {} =>
                /\ outcome \in {"saved", "save_error"}
                /\ "no_subdomains_found" \notin Range(reports)
                /\ "results_saved" \in Range(reports) \/ "error_saving" \in Range(reports)

(* C12 for the runs that were given a bot *)
C12_SavedExactlyOnceWithBot == botArg = "bot" => C12_SavedExactlyOnce

(* C13: run_async returns normally for every accepted argument             *)
(* combination: no exception leaves the call.                              *)
C13_NeverPropagates == outcome # "raised"

(* The index of the window a position belongs to *)
WindowOf(p) == (p - 1) \div max_concurrent

(* The positions whose coordinator was started and not yet collected *)
InProgress == {p \in Positions : taskPc[p] \in {"ready", "fetching", "sending", "done", "raised"}}

(* C14: windows are taken in input order and never overlap: the loop       *)
(* index only advances by the window size, a domain of a later window is   *)
(* not started before every domain of the earlier windows was collected,   *)
(* the domains in progress belong to one window, and there are never more  *)
(* than 3 of them.                                                         *)
C14_WindowsInOrder ==
    /\ [][(pc \in {"loop", "gather"} /\ i' # i) => i' = i + max_concurrent]_vars
    /\ [](\A p, q \in Positions :
            (WindowOf(p) < WindowOf(q) /\ taskPc[q] # "new") => taskPc[p] = "joined")
    /\ [](\A p, q \in InProgress : WindowOf(p) = WindowOf(q))
    /\ [](Cardinality(InProgress) <= max_concurrent)

(* C14 witness: the three domains of the first window were collected and   *)
(* the domain of the second window is being fetched.                       *)
C14_Witness ==
    /\ Len(domains) > max_concurrent
    /\ \A p \in 1..max_concurrent : taskPc[p] = "joined" /\ AllInvoked(p)
    /\ taskPc[max_concurrent + 1] = "fetching"
    /\ InProgress = {max_concurrent + 1}

(* The positions with an adapter call in flight *)
InFlight == {p \in Positions : \E s \in get_sources : srcStatus[p][s] = "running"}

(* C15 as stated: the domains of a window run concurrently, the adapters   *)
(* of a second valid domain of the window do not wait for the adapters of  *)
(* the first to finish: when an adapter call of one domain has finished,   *)
(* the adapters of every other valid, uncancelled domain of the window     *)
(* have been invoked.                                                      *)
C15_DomainsOverlap ==
    \A p, q \in Batch :
        (/\ pc = "gather"
         /\ p # q
         /\ cancelArg = "event" /\ ~cancel_event
         /\ is_valid_domain(domains[p]) /\ is_valid_domain(domains[q])
         /\ \E s \in get_sources : srcStatus[p][s] \in {"found", "raised"})
        => AllInvoked(q)

(* C15, what the code does: the executor block of process_domain holds     *)
(* the event loop until its futures are done, so adapter calls of two      *)
(* domains are never in flight together.                                   *)
C15_OneDomainInFlight == Cardinality(InFlight) <= 1

(* The adapter calls of position p that are in flight *)
Running(p) == {s \in get_sources : srcStatus[p][s] = "running"}

(* C16: for every processed domain each adapter's fetch is invoked         *)
(* exactly once (and never more than once for any domain), at most 6       *)
(* adapter calls of one domain are in flight, and the coordinator returns  *)
(* only after every adapter call has finished.                             *)
C16_EachAdapterOnce ==
    /\ [](\A p \in Positions :
            /\ \A s \in get_sources : fetch_calls[p][s] <= 1
            /\ taskPc[p] = "fetching" => \A s \in get_sources : fetch_calls[p][s] = 1
            /\ (/\ taskPc[p] \in {"done", "joined"}
                /\ is_valid_domain(domains[p])
                /\ cancelArg = "event" /\ ~cancel_event)
               => \A s \in get_sources : fetch_calls[p][s] = 1
            /\ Cardinality(Running(p)) <= max_workers
            /\ taskPc[p] # "fetching" => Running(p) = {})
    /\ [][\A p \in Positions :
            (taskPc[p] = "fetching" /\ taskPc'[p] # "fetching") =>
                /\ Running(p) = {}
                /\ \A s \in get_sources : srcStatus[p][s] \in {"found", "raised"}]_vars

(* C16 witness: the coordinator of a.com has returned after its three      *)
(* adapters were each invoked once, two of them having raised.            *)
C16_Witness ==
    \E p \in Positions :
        /\ domains[p] = DomA
        /\ taskPc[p] = "done"
        /\ \A s \in get_sources : fetch_calls[p][s] = 1
        /\ taskResult[p] = filter_valid_subdomains(Found("Crt.sh", DomA), DomA)
        /\ taskResult[p] # UNION {filter_valid_subdomains(Found(s, DomA), DomA) : s \in get_sources}

(* C17 as stated: for every input shape a window holds only entries for    *)
(* which is_valid_domain holds; an entry that fails domain validation,     *)
(* IP/CIDR entries included, never occupies a window position.             *)
C17_WindowsHoldOnlyValidDomains ==
    \A p \in Positions : taskPc[p] # "new" => is_valid_domain(domains[p])

(* C18 as stated: the adapters are invoked for a given domain string at    *)
(* most once within one run, also when the input list holds the same       *)
(* domain more than once.                                                  *)
C18_DomainFetchedAtMostOnce ==
    \A p, q \in Positions :
        (p # q /\ domains[p] = domains[q]) => ~(AllInvoked(p) /\ AllInvoked(q))

(* C19: the cancellation flag is scoped to one scan.  It is clear when a   *)
(* scan is accepted and stays clear until an authorized /cancel arrives    *)
(* during that scan; only such a /cancel sets it; a /cancel while no scan  *)
(* is in progress never sets it; and a scan during which no /cancel        *)
(* arrived, whatever happened in the scan before, skips no window, skips   *)
(* no domain and does not withhold its results.                            *)
C19_FlagScopedToRun ==
    /\ []((is_running /\ ~cancelledThisRun) => ~cancel_event)
    /\ [][(~cancel_event /\ cancel_event') => (is_running /\ cancelledThisRun')]_vars
    /\ [][(~is_running /\ cancel_event') => cancel_event]_vars
    /\ []((is_running /\ ~cancelledThisRun) =>
            /\ "scan_cancelled" \notin Range(reports)
            /\ outcome # "withheld"
            /\ \A p \in Positions :
                  /\ ~flagAtDispatch[p] /\ ~flagAtSubmit[p]
                  /\ (taskPc[p] \in {"done", "joined"} /\ is_valid_domain(domains[p]))
                        => AllInvoked(p))

(* C19 witness: the scan before was cancelled, no /cancel arrived during   *)
(* this one, and it has gone through two windows and saved its hostnames.  *)
C19_Witness ==
    /\ prevCancelled /\ ~cancelledThisRun
    /\ hpc = "running" /\ pc = "finally"
    /\ outcome = "saved"
    /\ Len(progressCalls) = 2
    /\ saved # <<>> /\ saved[1] # {}

(* C20: at most one scan is in progress.  is_running holds exactly from    *)
(* the acceptance of a scan request until the finally block of its handler *)
(* (after a normal end, an empty input, a cancelled run or an exception);  *)
(* run_async executes only under is_running; and a scan request handled    *)
(* while is_running holds is turned away without a call of run_async and   *)
(* without a change of the cancel flag, progress_message_id or             *)
(* last_percentage.                                                        *)
C20_OneRunAtATime ==
    /\ [](active <= 1)
    /\ [](is_running <=> active = 1)
    /\ [](is_running <=> hpc # "none")
    /\ [](pc # "idle" => (is_running /\ hpc = "running"))
    /\ [][((is_running /\ last_message_id' # last_message_id) \/ (rejected' /\ ~rejected)) =>
            /\ is_running /\ is_running' /\ rejected'
            /\ UNCHANGED <<pc, hpc, pending, active, cancel_event, progress_message_id,
                           last_percentage, domains, completed, taskPc, outcome>>]_vars
    /\ [][(is_running /\ ~is_running') =>
            (hpc' = "none" /\ (hpc = "replying" \/ (hpc = "running" /\ pc = "returned")))]_vars

(* C20 witness: a scan request was turned away while the second window of  *)
(* a scan was being fetched, with the flag raised and a progress message   *)
(* on display.                                                             *)
C20_Witness ==
    /\ rejected /\ is_running
    /\ pc = "gather" /\ i > 0
    /\ cancel_event
    /\ progress_message_id = MessageId
    /\ last_percentage > 0
    /\ \E p \in Positions : taskPc[p] = "fetching"

(* The transport would accept one of the attempts of the call *)
TransportAccepts == \E k \in 1..max_retries : answers[k] = "ok"

(* C21 as stated: a report the pipeline issues through send_message has    *)
(* been delivered to the chat, once, when the call returns, whenever the   *)
(* transport accepts at least one of the up to 3 attempts.                 *)
C21_ReportDelivered ==
    (sendPc = "returned" /\ sendText \in PipelineReports /\ TransportAccepts)
        => chat = <<sendText>>

(* C21, the part the code keeps: the call makes at most 3 attempts, stops  *)
(* at the first that succeeds, and returns without raising; a handler's    *)
(* reply, which is given the update's message, is delivered whenever the   *)
(* transport accepts an attempt.                                           *)
C21_ReturnsWithinThreeAttempts ==
    /\ tries <= max_retries
    /\ Len(chat) <= 1
    /\ sendPc = "attempt" => chat = <<>>
    /\ (sendPc = "returned" /\ sendText \in HandlerReplies /\ TransportAccepts)
          => chat = <<sendText>>
    /\ (sendPc = "returned" /\ chat = <<>>) => tries = max_retries

(* C21, what the code does: nothing sent through send_message reaches the  *)
(* chat, and every such call spends its 3 attempts and both sleeps.        *)
C21_SendMessageNeverDelivers ==
    (sendPc = "returned" /\ sendText \in PipelineReports)
        => (chat = <<>> /\ tries = max_retries /\ slept = 3)

====
